---- MODULE Spec2Model ----
(***************************************************************************)
(* State-machine model of sqlserver/base.py, the SQL Server backend glue   *)
(* of django-sqlserver: the import-time choice of the DB-API module, the   *)
(* connection parameters built for pytds, the post-connect handshake that  *)
(* patches the feature flags, the cursor proxy and the health check.       *)
(*                                                                         *)
(* Python strings that the code parses or formats (the DBMS version) are   *)
(* sequences of one-character strings, so that '{}.{}'.format(..),         *)
(* .split('.', 2)[0] and int(..) are computed and not assumed.             *)
(* Exceptions are records [mod, cls]; NoExc stands for "nothing raised".   *)
(***************************************************************************)
EXTENDS Integers, Sequences, FiniteSets, TLC

VARIABLES
    module,          \* "unloaded" | "loaded" | "failed": import of sqlserver.base
    Database,        \* module global Database: "unset" | "pytds" | "ado_dbapi"
    importRaised,    \* exception that escaped the import of the module
    settings_dict,   \* the wrapper's settings_dict (HOST, NAME, USER, PASSWORD, OPTIONS)
    USE_TZ,          \* django.conf.settings.USE_TZ
    command_timeout, \* self.command_timeout
    constructed,     \* DatabaseWrapper.__init__ has run
    features,        \* self.features, the DatabaseFeatures instance
    connection,      \* self.connection: "None" | "live" | "broken"
    tzinfo_factory,  \* self.tzinfo_factory: "unset" | "None" | "utc_tzinfo_factory"
    conn_params,     \* the dict returned by the last get_connection_params
    cursor,          \* tzinfo_factory of the _CursorWrapper handed out, "none" if none
    last             \* what the last operation did: its result and what it raised

vars == <<module, Database, importRaised, settings_dict, USE_TZ,
          command_timeout, constructed, features, connection, tzinfo_factory,
          conn_params, cursor, last>>

(***************************************************************************)
(* Bounds of the model.                                                    *)
(***************************************************************************)
\* utc_tzinfo_factory is called with offsets in -MaxOffset .. MaxOffset
MaxOffset == 2

(***************************************************************************)
(* Exceptions.                                                             *)
(***************************************************************************)
NoExc == [mod |-> "none", cls |-> "none"]
Py(c) == [mod |-> "builtins", cls |-> c]
Db(c) == [mod |-> "Database", cls |-> c]
Dj(c) == [mod |-> "django.db.utils", cls |-> c]

\* PEP 249 exception hierarchy of the transport module (pytds / ado dbapi):
\* the direct base class of each class.
Bases ==
    [DataError         |-> "DatabaseError",
     OperationalError  |-> "DatabaseError",
     IntegrityError    |-> "DatabaseError",
     InternalError     |-> "DatabaseError",
     ProgrammingError  |-> "DatabaseError",
     NotSupportedError |-> "DatabaseError",
     DatabaseError     |-> "Error",
     InterfaceError    |-> "Error",
     Error             |-> "Exception"]

RECURSIVE IsSubclassName(_, _)
IsSubclassName(c, d) ==
    IF c = d THEN TRUE
    ELSE IF c \in DOMAIN Bases THEN IsSubclassName(Bases[c], d)
    ELSE FALSE

\* issubclass(type(exc), getattr(Database, d))
issubclass(exc, d) == exc.mod = "Database" /\ IsSubclassName(exc.cls, d)

\* The order in which the framework's error wrapper tries its own classes.
DjangoExcTypes ==
    <<"DataError", "OperationalError", "IntegrityError", "InternalError",
      "ProgrammingError", "NotSupportedError", "DatabaseError",
      "InterfaceError", "Error">>

\* self.wrap_database_errors, the context manager handed to _CursorWrapper:
\* on exit with an exception it raises the framework class of the first
\* DB-API class of self.Database the exception is an instance of, and lets
\* every other exception through as it is.
wrap_database_errors(exc) ==
    LET hits == {i \in 1..Len(DjangoExcTypes) : issubclass(exc, DjangoExcTypes[i])}
    IN  IF exc = NoExc \/ hits = {} THEN exc
        ELSE Dj(DjangoExcTypes[CHOOSE i \in hits : \A j \in hits : i <= j])

(***************************************************************************)
(* Python string helpers.                                                  *)
(***************************************************************************)
DigitChar == <<"0", "1", "2", "3", "4", "5", "6", "7", "8", "9">>
IsDigit(c) == \E i \in 1..10 : DigitChar[i] = c
DigitVal(c) == (CHOOSE i \in 1..10 : DigitChar[i] = c) - 1

\* '{}'.format(n) for n >= 0
RECURSIVE IntToStr(_)
IntToStr(n) ==
    IF n < 10 THEN <<DigitChar[n + 1]>>
    ELSE IntToStr(n \div 10) \o <<DigitChar[(n % 10) + 1]>>

\* s.split('.', 2)[0]: the text before the first '.', all of s without one
SplitFirst(s) ==
    LET dots == {i \in 1..Len(s) : s[i] = "."}
    IN  IF dots = {} THEN s
        ELSE SubSeq(s, 1, (CHOOSE i \in dots : \A j \in dots : i <= j) - 1)

\* s.strip() for blanks
RECURSIVE Strip(_)
Strip(s) ==
    IF s = <<>> THEN s
    ELSE IF Head(s) = " " THEN Strip(Tail(s))
    ELSE IF s[Len(s)] = " " THEN Strip(SubSeq(s, 1, Len(s) - 1))
    ELSE s

RECURSIVE DigitsValue(_)
DigitsValue(s) ==
    IF s = <<>> THEN 0
    ELSE 10 * DigitsValue(SubSeq(s, 1, Len(s) - 1)) + DigitVal(s[Len(s)])

\* int(s): blanks around, an optional sign, then at least one digit;
\* anything else raises ValueError.
PyInt(s) ==
    LET t      == Strip(s)
        signed == t # <<>> /\ Head(t) \in {"+", "-"}
        digits == IF signed THEN Tail(t) ELSE t
    IN  IF digits # <<>> /\ \A i \in 1..Len(digits) : IsDigit(digits[i])
        THEN [raised |-> NoExc,
              value  |-> IF signed /\ Head(t) = "-"
                         THEN 0 - DigitsValue(digits) ELSE DigitsValue(digits)]
        ELSE [raised |-> Py("ValueError"), value |-> 0]

(***************************************************************************)
(* Module level: the choice of the DB-API module (lines 12-31).            *)
(***************************************************************************)
\* What "try: from sqlserver_ado import dbapi as ado_dbapi; import pythoncom
\* except ImportError: ado_dbapi = None" leaves in ado_dbapi.
ado_dbapi_loaded(avail) == avail.dbapi /\ avail.pythoncom

\* Mutant: the legacy transport is tried first.
SelectTransport_ado_first(avail) ==
    IF ado_dbapi_loaded(avail) THEN [Database |-> "ado_dbapi", raised |-> NoExc]
    ELSE IF avail.pytds THEN [Database |-> "pytds", raised |-> NoExc]
    ELSE [Database |-> "unset", raised |-> Py("Exception")]

\* if pytds is not None: Database = pytds / elif ado_dbapi is not None:
\* Database = ado_dbapi / else: raise Exception(...)
SelectTransport(avail) ==
    IF avail.pytds THEN [Database |-> "pytds", raised |-> NoExc]
    ELSE IF ado_dbapi_loaded(avail) THEN [Database |-> "ado_dbapi", raised |-> NoExc]
    ELSE [Database |-> "unset", raised |-> Py("Exception")]

_SUPPORTED_OPTIONS == {"failover_partner"}

\* Mutant: only offsets east of UTC are refused.
utc_tzinfo_factory_east_only(offset) ==
    IF offset > 0 THEN [result |-> "none", raised |-> Py("AssertionError")]
    ELSE [result |-> "utc", raised |-> NoExc]

\* utc_tzinfo_factory(offset)
utc_tzinfo_factory(offset) ==
    IF offset # 0 THEN [result |-> "none", raised |-> Py("AssertionError")]
    ELSE [result |-> "utc", raised |-> NoExc]

(***************************************************************************)
(* DatabaseFeatures: the class attributes the handshake touches, and two   *)
(* it never touches.  supports_microsecond_precision is inherited; the     *)
(* handshake's comment (only pytds supports the new date types) says the   *)
(* inherited value is False.                                               *)
(***************************************************************************)
DatabaseFeatures ==
    [supports_timezones                  |-> FALSE,
     uses_savepoints                     |-> TRUE,
     ignores_nulls_in_unique_constraints |-> FALSE,
     supports_paramstyle_pyformat        |-> FALSE,
     supports_microsecond_precision      |-> FALSE]

(***************************************************************************)
(* DatabaseWrapper.                                                        *)
(***************************************************************************)
\* dict.get(key, default)
DictGet(d, k, default) == IF k \in DOMAIN d THEN d[k] ELSE default

\* for k in keys: if k in src: d[k] = src[k]
DictCopy(d, keys, src) ==
    [k \in DOMAIN d \cup (keys \cap DOMAIN src) |->
        IF k \in keys \cap DOMAIN src THEN src[k] ELSE d[k]]

\* The instance state the methods below read.
Self ==
    [settings_dict   |-> settings_dict,
     command_timeout |-> command_timeout,
     tzinfo_factory  |-> tzinfo_factory,
     features        |-> features,
     connection      |-> connection,
     conn_params     |-> conn_params]

\* Mutant: the loop forwards every option instead of the supported ones.
get_connection_params_all_options(self, use_tz) ==
    LET sd      == self.settings_dict
        options == sd.OPTIONS
        base    == [server           |-> sd.HOST,
                    database         |-> sd.NAME,
                    user             |-> sd.USER,
                    password         |-> sd.PASSWORD,
                    timeout          |-> self.command_timeout,
                    autocommit       |-> DictGet(options, "autocommit", FALSE),
                    use_mars         |-> DictGet(options, "use_mars", FALSE),
                    load_balancer    |-> DictGet(options, "load_balancer", "None"),
                    failover_partner |-> DictGet(options, "failover_partner", "None"),
                    use_tz           |-> IF use_tz THEN "utc" ELSE "None"]
    IN  [conn_params    |-> DictCopy(base, DOMAIN options, options),
         tzinfo_factory |-> IF use_tz THEN "utc_tzinfo_factory" ELSE "None",
         raised         |-> NoExc]

\* Mutant: use_tz is derived from the factory the previous call stored.
get_connection_params_stateful(self, use_tz) ==
    LET sd      == self.settings_dict
        options == sd.OPTIONS
        base    == [server           |-> sd.HOST,
                    database         |-> sd.NAME,
                    user             |-> sd.USER,
                    password         |-> sd.PASSWORD,
                    timeout          |-> self.command_timeout,
                    autocommit       |-> DictGet(options, "autocommit", FALSE),
                    use_mars         |-> DictGet(options, "use_mars", FALSE),
                    load_balancer    |-> DictGet(options, "load_balancer", "None"),
                    failover_partner |-> DictGet(options, "failover_partner", "None"),
                    use_tz           |-> IF self.tzinfo_factory = "utc_tzinfo_factory"
                                         THEN "utc" ELSE "None"]
    IN  [conn_params    |-> DictCopy(base, _SUPPORTED_OPTIONS, options),
         tzinfo_factory |-> IF use_tz THEN "utc_tzinfo_factory" ELSE "None",
         raised         |-> NoExc]

\* Mutant: an empty HOST falls back to a default server name.
get_connection_params_default_host(self, use_tz) ==
    LET sd      == self.settings_dict
        options == sd.OPTIONS
        base    == [server           |-> IF sd.HOST = "" THEN "localhost" ELSE sd.HOST,
                    database         |-> sd.NAME,
                    user             |-> sd.USER,
                    password         |-> sd.PASSWORD,
                    timeout          |-> self.command_timeout,
                    autocommit       |-> DictGet(options, "autocommit", FALSE),
                    use_mars         |-> DictGet(options, "use_mars", FALSE),
                    load_balancer    |-> DictGet(options, "load_balancer", "None"),
                    failover_partner |-> DictGet(options, "failover_partner", "None"),
                    use_tz           |-> IF use_tz THEN "utc" ELSE "None"]
    IN  [conn_params    |-> DictCopy(base, _SUPPORTED_OPTIONS, options),
         tzinfo_factory |-> IF use_tz THEN "utc_tzinfo_factory" ELSE "None",
         raised         |-> NoExc]

\* get_connection_params_pytds(self): the dict it returns, the value it
\* assigns to self.tzinfo_factory, and what it raises.  None is "None".
get_connection_params_pytds(self, use_tz) ==
    LET sd      == self.settings_dict
        options == sd.OPTIONS
        base    == [server           |-> sd.HOST,
                    database         |-> sd.NAME,
                    user             |-> sd.USER,
                    password         |-> sd.PASSWORD,
                    timeout          |-> self.command_timeout,
                    autocommit       |-> DictGet(options, "autocommit", FALSE),
                    use_mars         |-> DictGet(options, "use_mars", FALSE),
                    load_balancer    |-> DictGet(options, "load_balancer", "None"),
                    failover_partner |-> DictGet(options, "failover_partner", "None"),
                    use_tz           |-> IF use_tz THEN "utc" ELSE "None"]
    IN  [conn_params    |-> DictCopy(base, _SUPPORTED_OPTIONS, options),
         tzinfo_factory |-> IF use_tz THEN "utc_tzinfo_factory" ELSE "None",
         raised         |-> NoExc]

\* get_new_connection(conn_params): Database.connect(**conn_params) either
\* returns a live handle or raises; nothing is caught.  (The private
\* __connection_string it stores is read nowhere in the file.)
get_new_connection(params, connect_raises) ==
    IF connect_raises = NoExc
    THEN [conn |-> "live", raised |-> NoExc]
    ELSE [conn |-> "None", raised |-> connect_raises]

\* __get_dbms_version_pytds: '{}.{}'.format(major, minor) of product_version
get_dbms_version_pytds(product_version) ==
    LET major == (product_version \div 16777216) % 256
        minor == (product_version \div 65536) % 256
    IN  IntToStr(major) \o <<".">> \o IntToStr(minor)

VERSION_SQL2008 == 10

\* The flag assignments that end init_connection_state (lines 235-240).
grant_flags(feat, db, options) ==
    LET f1 == IF db = "pytds"
              THEN [feat EXCEPT !.supports_paramstyle_pyformat = TRUE,
                                !.supports_microsecond_precision = TRUE]
              ELSE feat
    IN  IF DictGet(options, "allow_nulls_in_unique_constraints", TRUE)
        THEN [f1 EXCEPT !.ignores_nulls_in_unique_constraints = TRUE]
        ELSE f1

\* Mutant: an unparsable version puts the flags back to the class defaults.
init_connection_state_reset(self, db, probe) ==
    LET options == self.settings_dict.OPTIONS
        parsed  == PyInt(SplitFirst(probe.version))
    IN  IF probe.raised # NoExc
        THEN [features |-> self.features, warning |-> "none", raised |-> probe.raised]
        ELSE IF parsed.raised # NoExc
        THEN [features |-> DatabaseFeatures, warning |-> "unknown_version",
              raised |-> NoExc]
        ELSE [features |-> grant_flags(self.features, db, options),
              warning  |-> IF parsed.value < VERSION_SQL2008
                           THEN "unsupported_version" ELSE "none",
              raised   |-> NoExc]

\* Mutant: an unparsable version ends the handshake before the flags are set.
init_connection_state_return_early(self, db, probe) ==
    LET options == self.settings_dict.OPTIONS
        parsed  == PyInt(SplitFirst(probe.version))
    IN  IF probe.raised # NoExc
        THEN [features |-> self.features, warning |-> "none", raised |-> probe.raised]
        ELSE IF parsed.raised # NoExc
        THEN [features |-> self.features, warning |-> "unknown_version",
              raised |-> NoExc]
        ELSE [features |-> grant_flags(self.features, db, options),
              warning  |-> IF parsed.value < VERSION_SQL2008
                           THEN "unsupported_version" ELSE "none",
              raised   |-> NoExc]

\* init_connection_state(self).  probe is what self.__get_dbms_version() does:
\* it returns a version string or raises.  int(version.split('.', 2)[0]) is
\* guarded by except (IndexError, ValueError); anything else the probe raises
\* escapes before a flag is assigned.  (The ADO property cache of lines
\* 220-221 touches the handle only, not the wrapper.)
init_connection_state(self, db, probe) ==
    LET options == self.settings_dict.OPTIONS
        parsed  == PyInt(SplitFirst(probe.version))
        caught  == {Py("IndexError"), Py("ValueError")}
    IN  IF probe.raised # NoExc /\ probe.raised \notin caught
        THEN [features |-> self.features, warning |-> "none", raised |-> probe.raised]
        ELSE [features |-> grant_flags(self.features, db, options),
              warning  |-> IF probe.raised # NoExc \/ parsed.raised # NoExc
                           THEN "unknown_version"
                           ELSE IF parsed.value < VERSION_SQL2008
                           THEN "unsupported_version" ELSE "none",
              raised   |-> NoExc]

\* Mutant: only the transport's own errors are caught.
is_usable_database_errors_only(attempt) ==
    IF attempt.exc = NoExc THEN [result |-> "True", raised |-> NoExc]
    ELSE IF attempt.exc.mod = "Database" THEN [result |-> "False", raised |-> NoExc]
    ELSE [result |-> "none", raised |-> attempt.exc]

\* is_usable(self).  attempt says which step of
\*   with self.connection.cursor() as cursor: cursor.execute("SELECT 1")
\* raises (step "none": none does) and what; the bare except returns False.
is_usable(attempt) ==
    IF attempt.exc # NoExc THEN [result |-> "False", raised |-> NoExc]
    ELSE [result |-> "True", raised |-> NoExc]

(***************************************************************************)
(* _CursorWrapper.  raw is what the wrapped cursor raises (NoExc: nothing).*)
(***************************************************************************)
\* self.execute = cursor.execute; self.fetchall = cursor.fetchall: the bound
\* methods of the raw cursor.
CursorWrapper_direct(raw) == raw

\* Mutant: the rows are pulled outside the error wrapper.
CursorWrapper_iter_unwrapped(raw) == raw

\* __iter__: with self._error_wrapper: for item in self._cursor: yield item
CursorWrapper_iter(raw) == wrap_database_errors(raw)

(***************************************************************************)
(* Opening a connection: get_connection_params, get_new_connection and     *)
(* init_connection_state in the order the base wrapper's connect() runs    *)
(* them (the connect() that __get_dbms_version_pytds calls when there is   *)
(* no connection).  With ado_dbapi the parameters come from the inherited  *)
(* get_connection_params, which this file does not define: conn_params and *)
(* tzinfo_factory are then left as they were.                              *)
(* env.connect is what Database.connect raises, env.probe what the version *)
(* probe does.                                                             *)
(***************************************************************************)
\* Mutant: a failed handshake closes the handle before the error leaves.
connect_closing_on_failure(self, db, use_tz, env) ==
    LET built  == IF db = "pytds" THEN get_connection_params_pytds(self, use_tz)
                  ELSE [conn_params    |-> self.conn_params,
                        tzinfo_factory |-> self.tzinfo_factory,
                        raised         |-> NoExc]
        opened == get_new_connection(built.conn_params, env.connect)
        self2  == [self EXCEPT !.connection = opened.conn,
                               !.tzinfo_factory = built.tzinfo_factory,
                               !.conn_params = built.conn_params]
        shaken == init_connection_state(self2, db, env.probe)
    IN  IF opened.raised # NoExc
        THEN [self2 EXCEPT !.connection = self.connection]
                 @@ [stage |-> "get_new_connection", warning |-> "none",
                     raised |-> opened.raised]
        ELSE [self2 EXCEPT !.features = shaken.features,
                           !.connection = IF shaken.raised # NoExc
                                          THEN "None" ELSE "live"]
                 @@ [stage   |-> IF shaken.raised # NoExc
                                 THEN "init_connection_state" ELSE "done",
                     warning |-> shaken.warning,
                     raised  |-> shaken.raised]

\* The wrapper's fields after connect(), with the stage reached, the warning
\* issued and the exception that left it.
connect(self, db, use_tz, env) ==
    LET built  == IF db = "pytds" THEN get_connection_params_pytds(self, use_tz)
                  ELSE [conn_params    |-> self.conn_params,
                        tzinfo_factory |-> self.tzinfo_factory,
                        raised         |-> NoExc]
        opened == get_new_connection(built.conn_params, env.connect)
        self2  == [self EXCEPT !.connection = opened.conn,
                               !.tzinfo_factory = built.tzinfo_factory,
                               !.conn_params = built.conn_params]
        shaken == init_connection_state(self2, db, env.probe)
    IN  IF opened.raised # NoExc
        THEN [self2 EXCEPT !.connection = self.connection]
                 @@ [stage |-> "get_new_connection", warning |-> "none",
                     raised |-> opened.raised]
        ELSE [self2 EXCEPT !.features = shaken.features]
                 @@ [stage   |-> IF shaken.raised # NoExc
                                 THEN "init_connection_state" ELSE "done",
                     warning |-> shaken.warning,
                     raised  |-> shaken.raised]

(***************************************************************************)
(* The environment: settings, servers and faults the model draws from.     *)
(***************************************************************************)
Availabilities == [dbapi : BOOLEAN, pythoncom : BOOLEAN, pytds : BOOLEAN]

\* One value per option key; an OPTIONS dict holds any subset of the keys.
OptionValue ==
    [failover_partner                  |-> "db2",
     bogus_key                         |-> "z",
     use_mars                          |-> TRUE,
     allow_nulls_in_unique_constraints |-> FALSE]
OptionDicts == {[k \in S |-> OptionValue[k]] : S \in SUBSET DOMAIN OptionValue}

Settings ==
    [HOST : {"", "db1"}, NAME : {"", "orders"}, USER : {"", "svc"},
     PASSWORD : {"x"}, OPTIONS : OptionDicts]

CommandTimeouts == {30}

\* connection.product_version of pytds: 10.50, 9.0 and 11.0.2100
ProductVersions == {171048960, 150994944, 184551476}

\* 'DBMS Version' as the ADO connection reports it: "10.50", "9.0", "" and "SQL"
VersionStrings ==
    {<<"1", "0", ".", "5", "0">>, <<"9", ".", "0">>, <<>>, <<"S", "Q", "L">>}

ConnectFault == Db("OperationalError")
ProbeFault == Db("InterfaceError")

Probes(db) ==
    {[raised |-> ProbeFault, version |-> <<>>]}
    \cup (IF db = "pytds"
          THEN {[raised |-> NoExc, version |-> get_dbms_version_pytds(pv)] :
                    pv \in ProductVersions}
          ELSE {[raised |-> NoExc, version |-> v] : v \in VersionStrings})

ConnectEnvs(db) ==
    {[connect |-> ConnectFault, probe |-> [raised |-> NoExc, version |-> <<>>]]}
    \cup {[connect |-> NoExc, probe |-> p] : p \in Probes(db)}

CursorFaults == {Db("InterfaceError"), Db("OperationalError"), Py("ValueError")}
UsableFaults == {Db("OperationalError"), Py("KeyboardInterrupt")}

\* What the steps of is_usable can do on a connection in state c.
Attempts(c) ==
    IF c = "None" THEN {[step |-> "cursor", exc |-> Py("AttributeError")]}
    ELSE {[step |-> s, exc |-> e] : s \in {"cursor", "execute"}, e \in UsableFaults}
         \cup (IF c = "live"
               THEN {[step |-> "none", exc |-> NoExc]}
                    \cup {[step |-> "exit", exc |-> e] : e \in UsableFaults}
               ELSE {})

Offsets == (0 - MaxOffset) .. MaxOffset

(***************************************************************************)
(* State machine.                                                          *)
(***************************************************************************)
\* The record of an operation that has not filled anything in yet.
Op(name) ==
    [op |-> name, arg |-> 0, result |-> "none", raised |-> NoExc, inner |-> NoExc,
     stage |-> "none", version |-> <<>>, warning |-> "none",
     before |-> DatabaseFeatures,
     avail |-> [dbapi |-> FALSE, pythoncom |-> FALSE, pytds |-> FALSE]]

NoParams == [none |-> TRUE]

Init ==
    /\ module = "unloaded"
    /\ Database = "unset"
    /\ importRaised = NoExc
    /\ settings_dict \in Settings
    /\ USE_TZ \in BOOLEAN
    /\ command_timeout \in CommandTimeouts
    /\ constructed = FALSE
    /\ features = DatabaseFeatures
    /\ connection = "None"
    /\ tzinfo_factory = "unset"
    /\ conn_params = NoParams
    /\ cursor = "none"
    /\ last = Op("none")

\* import sqlserver.base in a process where the optional imports avail load
Import ==
    /\ module = "unloaded"
    /\ \E avail \in Availabilities :
        LET sel == SelectTransport(avail)
        IN  /\ Database' = sel.Database
            /\ importRaised' = sel.raised
            /\ module' = IF sel.raised = NoExc THEN "loaded" ELSE "failed"
            /\ last' = [Op("import") EXCEPT !.avail = avail, !.raised = sel.raised]
    /\ UNCHANGED <<settings_dict, USE_TZ, command_timeout, constructed,
                   features, connection, tzinfo_factory, conn_params, cursor>>

\* DatabaseWrapper.__init__: a fresh DatabaseFeatures; no connection yet.
Construct ==
    /\ module = "loaded"
    /\ ~constructed
    /\ constructed' = TRUE
    /\ features' = DatabaseFeatures
    /\ last' = Op("__init__")
    /\ UNCHANGED <<module, Database, importRaised, settings_dict, USE_TZ,
                   command_timeout, connection, tzinfo_factory, conn_params, cursor>>

\* self.get_connection_params(), bound to get_connection_params_pytds when
\* Database is pytds.
GetConnectionParams ==
    /\ constructed
    /\ Database = "pytds"
    /\ LET built == get_connection_params_pytds(Self, USE_TZ)
       IN  /\ conn_params' = built.conn_params
           /\ tzinfo_factory' = built.tzinfo_factory
           /\ last' = [Op("get_connection_params") EXCEPT !.raised = built.raised]
    /\ UNCHANGED <<module, Database, importRaised, settings_dict, USE_TZ,
                   command_timeout, constructed, features, connection, cursor>>

\* self.connect() on a wrapper that holds no connection.
Connect ==
    /\ constructed
    /\ connection = "None"
    /\ \E env \in ConnectEnvs(Database) :
        LET after == connect(Self, Database, USE_TZ, env)
        IN  /\ conn_params' = after.conn_params
            /\ tzinfo_factory' = after.tzinfo_factory
            /\ connection' = after.connection
            /\ features' = after.features
            /\ last' = [Op("connect") EXCEPT !.raised = after.raised,
                                             !.stage = after.stage,
                                             !.warning = after.warning,
                                             !.inner = env.probe.raised,
                                             !.version = env.probe.version,
                                             !.before = features]
    /\ UNCHANGED <<module, Database, importRaised, settings_dict, USE_TZ,
                   command_timeout, constructed, cursor>>

\* The caller closes the connection: the handle is closed and dropped.
Close ==
    /\ constructed
    /\ connection # "None"
    /\ connection' = "None"
    /\ last' = Op("close")
    /\ UNCHANGED <<module, Database, importRaised, settings_dict, USE_TZ,
                   command_timeout, constructed, features, tzinfo_factory,
                   conn_params, cursor>>

\* The server or the network drops a live connection.
Break ==
    /\ connection = "live"
    /\ connection' = "broken"
    /\ UNCHANGED <<module, Database, importRaised, settings_dict, USE_TZ,
                   command_timeout, constructed, features, tzinfo_factory,
                   conn_params, cursor, last>>

\* self.create_cursor(), bound to create_cursor_pytds when Database is pytds:
\* a _CursorWrapper around a raw cursor that carries self.tzinfo_factory.
CreateCursor ==
    /\ constructed
    /\ Database = "pytds"
    /\ connection # "None"
    /\ cursor' = tzinfo_factory
    /\ last' = Op("create_cursor")
    /\ UNCHANGED <<module, Database, importRaised, settings_dict, USE_TZ,
                   command_timeout, constructed, features, connection,
                   tzinfo_factory, conn_params>>

\* proxy.execute(sql), the raw cursor raising raw
CursorExecute ==
    /\ cursor # "none"
    /\ \E raw \in {NoExc} \cup CursorFaults :
        last' = [Op("execute") EXCEPT !.inner = raw,
                                      !.raised = CursorWrapper_direct(raw)]
    /\ UNCHANGED <<module, Database, importRaised, settings_dict, USE_TZ,
                   command_timeout, constructed, features, connection,
                   tzinfo_factory, conn_params, cursor>>

\* proxy.fetchall(), the raw cursor raising raw
CursorFetchall ==
    /\ cursor # "none"
    /\ \E raw \in {NoExc} \cup CursorFaults :
        last' = [Op("fetchall") EXCEPT !.inner = raw,
                                       !.raised = CursorWrapper_direct(raw)]
    /\ UNCHANGED <<module, Database, importRaised, settings_dict, USE_TZ,
                   command_timeout, constructed, features, connection,
                   tzinfo_factory, conn_params, cursor>>

\* next(iter(proxy)), the raw cursor raising raw while the next row is pulled
CursorIter ==
    /\ cursor # "none"
    /\ \E raw \in {NoExc} \cup CursorFaults :
        last' = [Op("__iter__") EXCEPT !.inner = raw,
                                       !.raised = CursorWrapper_iter(raw)]
    /\ UNCHANGED <<module, Database, importRaised, settings_dict, USE_TZ,
                   command_timeout, constructed, features, connection,
                   tzinfo_factory, conn_params, cursor>>

\* The transport decodes a value with a UTC offset and calls the cursor's
\* tzinfo_factory with it.
TzinfoFactory ==
    /\ cursor = "utc_tzinfo_factory"
    /\ \E offset \in Offsets :
        LET r == utc_tzinfo_factory(offset)
        IN  last' = [Op("utc_tzinfo_factory") EXCEPT !.arg = offset,
                                                     !.result = r.result,
                                                     !.raised = r.raised]
    /\ UNCHANGED <<module, Database, importRaised, settings_dict, USE_TZ,
                   command_timeout, constructed, features, connection,
                   tzinfo_factory, conn_params, cursor>>

\* self.is_usable()
IsUsable ==
    /\ constructed
    /\ \E attempt \in Attempts(connection) :
        LET r == is_usable(attempt)
        IN  last' = [Op("is_usable") EXCEPT !.stage = attempt.step,
                                            !.inner = attempt.exc,
                                            !.result = r.result,
                                            !.raised = r.raised]
    /\ UNCHANGED <<module, Database, importRaised, settings_dict, USE_TZ,
                   command_timeout, constructed, features, connection,
                   tzinfo_factory, conn_params, cursor>>

Next ==
    \/ Import
    \/ Construct
    \/ GetConnectionParams
    \/ Connect
    \/ Close
    \/ Break
    \/ CreateCursor
    \/ CursorExecute
    \/ CursorFetchall
    \/ CursorIter
    \/ TzinfoFactory
    \/ IsUsable

Spec == Init /\ [][Next]_vars

(***************************************************************************)
(* Properties.                                                             *)
(***************************************************************************)
ado_loads(a) == a.dbapi /\ a.pythoncom

\* C1: the transport chosen at import is a function of what loads: pytds
\* whenever it loads, ADO only when pytds does not load and ADO does, and
\* when neither loads the import fails (the error the specification calls
\* ConfigurationError is the built-in Exception raised at line 31) and no
\* transport is active: Database stays unset and no wrapper is ever built.
C1_TransportSelection ==
    /\ last.op = "import" =>
         /\ last.avail.pytds => (module = "loaded" /\ Database = "pytds")
         /\ Database = "ado_dbapi" => (~last.avail.pytds /\ ado_loads(last.avail))
         /\ (~last.avail.pytds /\ ado_loads(last.avail)) =>
                (module = "loaded" /\ Database = "ado_dbapi")
         /\ (~last.avail.pytds /\ ~ado_loads(last.avail)) =>
                (module = "failed" /\ importRaised = Py("Exception"))
    /\ module = "failed" => (Database = "unset" /\ ~constructed)
    /\ module = "loaded" => (Database \in {"pytds", "ado_dbapi"} /\ importRaised = NoExc)

C1_Witness ==
    /\ last.op = "import"
    /\ ~last.avail.pytds /\ last.avail.dbapi /\ ~last.avail.pythoncom
    /\ module = "failed"

\* The keys of the dict literal of get_connection_params_pytds.
ParamKeys ==
    {"server", "database", "user", "password", "timeout", "autocommit",
     "use_mars", "load_balancer", "failover_partner", "use_tz"}

\* C2: the parameters built hold every allow-listed option that was given,
\* with its value, no key that an option outside the allow-list brought in
\* (such a key is in the dict only if the dict has it anyway), and the
\* command timeout.
C2_OptionFiltering ==
    conn_params # NoParams =>
        /\ \A k \in _SUPPORTED_OPTIONS \cap DOMAIN settings_dict.OPTIONS :
               k \in DOMAIN conn_params /\ conn_params[k] = settings_dict.OPTIONS[k]
        /\ \A k \in DOMAIN settings_dict.OPTIONS \ _SUPPORTED_OPTIONS :
               k \in DOMAIN conn_params => k \in ParamKeys
        /\ "bogus_key" \notin DOMAIN conn_params
        /\ conn_params.timeout = command_timeout

C2_Witness ==
    /\ last.op = "get_connection_params"
    /\ {"failover_partner", "bogus_key"} \subseteq DOMAIN settings_dict.OPTIONS
    /\ conn_params # NoParams
    /\ conn_params.failover_partner = "db2"
    /\ conn_params.timeout = 30

\* C3: is_usable raises nothing; it returns False when any step of the
\* round trip raised and True when none did.
C3_IsUsableNeverThrows ==
    last.op = "is_usable" =>
        /\ last.raised = NoExc
        /\ last.inner # NoExc => last.result = "False"
        /\ last.inner = NoExc => last.result = "True"

C3_Witness ==
    /\ last.op = "is_usable"
    /\ connection = "broken"
    /\ last.stage = "execute"
    /\ last.inner = Py("KeyboardInterrupt")
    /\ last.result = "False"

\* C4 as stated: whatever is raised while the next row is pulled reaches the
\* caller as the framework's InterfaceError, and execute / fetchall raise
\* what the raw cursor raised.
C4_Original ==
    /\ (last.op = "__iter__" /\ last.inner # NoExc) => last.raised = Dj("InterfaceError")
    /\ last.op \in {"execute", "fetchall"} => last.raised = last.inner

\* C4, amended: while the next row is pulled, an error of the transport's
\* DB-API hierarchy reaches the caller as the framework's error of the same
\* DB-API class, never as the raw transport exception; any other exception
\* reaches the caller as it is; execute and fetchall raise what the raw
\* cursor raised.
C4_IterationTranslated ==
    /\ (last.op = "__iter__" /\ last.inner.mod = "Database") =>
           last.raised = Dj(last.inner.cls)
    /\ (last.op = "__iter__" /\ last.inner.mod # "Database") =>
           last.raised = last.inner
    /\ last.op \in {"execute", "fetchall"} => last.raised = last.inner

C4_Witness ==
    /\ last.op = "__iter__"
    /\ last.inner = Db("OperationalError")
    /\ last.raised = Dj("OperationalError")

\* A handshake whose probe returned a string that int() refuses.
UnparsableProbe ==
    /\ last.op = "connect"
    /\ last.stage \in {"init_connection_state", "done"}
    /\ last.inner = NoExc
    /\ last.version \in {<<>>, <<"S", "Q", "L">>}

\* C5 as stated: after a probe that returned an unparsable string every flag
\* has the value it had before, a warning is recorded and nothing escapes.
C5_Original ==
    UnparsableProbe =>
        /\ features = last.before
        /\ last.warning = "unknown_version"
        /\ last.raised = NoExc

\* C5, amended: after a probe that returned an unparsable string a warning
\* is recorded and nothing escapes; ignores_nulls_in_unique_constraints is
\* true unless OPTIONS turns allow_nulls_in_unique_constraints off, the two
\* pytds flags are true when the transport is pytds, and every other flag
\* has the value it had before.
C5_UnparsableVersion ==
    UnparsableProbe =>
        /\ last.warning = "unknown_version"
        /\ last.raised = NoExc
        /\ \A f \in DOMAIN features :
               features[f] <=>
                   \/ last.before[f]
                   \/ /\ f = "ignores_nulls_in_unique_constraints"
                      /\ DictGet(settings_dict.OPTIONS,
                                 "allow_nulls_in_unique_constraints", TRUE)
                   \/ /\ f \in {"supports_paramstyle_pyformat",
                                "supports_microsecond_precision"}
                      /\ Database = "pytds"

C5_Witness ==
    /\ UnparsableProbe
    /\ last.version = <<"S", "Q", "L">>
    /\ ~last.before.ignores_nulls_in_unique_constraints
    /\ features.ignores_nulls_in_unique_constraints
    /\ last.warning = "unknown_version"

\* C6 as stated: a call of get_connection_params changes no state of the
\* wrapper, and a second call with the same settings returns the same dict.
C6_Original ==
    [][GetConnectionParams =>
          /\ UNCHANGED <<features, connection, tzinfo_factory, cursor, settings_dict>>
          /\ conn_params # NoParams => conn_params' = conn_params]_vars

\* C6, amended: a call of get_connection_params changes nothing of the
\* wrapper but self.tzinfo_factory, which it sets to utc_tzinfo_factory when
\* USE_TZ is on and to None when it is off, and a second call with the same
\* settings returns the same dict.
C6_BuildDeterministic ==
    [][GetConnectionParams =>
          /\ UNCHANGED <<features, connection, cursor, settings_dict>>
          /\ tzinfo_factory' = IF USE_TZ THEN "utc_tzinfo_factory" ELSE "None"
          /\ conn_params # NoParams => conn_params' = conn_params]_vars

\* get_connection_params called again on a wrapper whose connect() built the
\* parameters before, with USE_TZ on.
C6_Witness ==
    /\ last.op = "get_connection_params"
    /\ connection = "live"
    /\ conn_params # NoParams
    /\ tzinfo_factory = "utc_tzinfo_factory"

RequiredEmpty ==
    settings_dict.HOST = "" \/ settings_dict.NAME = "" \/ settings_dict.USER = ""

\* C7 as stated: with an empty host, database or user the build fails with
\* InvalidConfigurationError and yields no parameters, and connect() never
\* comes to open a connection.
C7_Original ==
    (RequiredEmpty /\ Database = "pytds") =>
        /\ last.op = "get_connection_params" =>
               last.raised = Py("InvalidConfigurationError")
        /\ conn_params = NoParams
        /\ connection = "None"

\* C7, amended: the build validates nothing: it raises nothing and returns
\* server, database and user equal to HOST, NAME and USER, empty or not, and
\* connect() goes on to open the connection with them.
C7_NoValidation ==
    /\ last.op = "get_connection_params" => last.raised = NoExc
    /\ conn_params # NoParams =>
           /\ conn_params.server = settings_dict.HOST
           /\ conn_params.database = settings_dict.NAME
           /\ conn_params.user = settings_dict.USER
    /\ (last.op = "connect" /\ Database = "pytds") =>
           (conn_params # NoParams /\ last.stage # "none")

C7_Witness ==
    /\ last.op = "connect"
    /\ Database = "pytds"
    /\ settings_dict.HOST = ""
    /\ conn_params.server = ""
    /\ last.stage = "done"
    /\ connection = "live"

\* C8: utc_tzinfo_factory returns the UTC tzinfo for offset 0 and raises
\* AssertionError, returning nothing, for every other offset.
C8_TzinfoFactory ==
    last.op = "utc_tzinfo_factory" =>
        /\ last.arg = 0 => (last.result = "utc" /\ last.raised = NoExc)
        /\ last.arg # 0 => (last.result = "none" /\ last.raised = Py("AssertionError"))

C8_Witness ==
    /\ last.op = "utc_tzinfo_factory"
    /\ last.arg < 0
    /\ last.raised = Py("AssertionError")

\* C9 as stated: when connect() fails, no handle is held.
C9_Original ==
    (last.op = "connect" /\ last.raised # NoExc) => connection = "None"

\* C9, amended: when Database.connect itself fails no handle is held; when
\* the handshake fails after a handle was returned, the error of the probe
\* reaches the caller and the handle stays open and held as self.connection.
C9_HandleKeptOnFailure ==
    last.op = "connect" =>
        /\ last.stage = "get_new_connection" =>
               (last.raised = ConnectFault /\ connection = "None")
        /\ last.stage = "init_connection_state" =>
               (last.raised = last.inner /\ last.raised # NoExc /\ connection # "None")
        /\ last.stage = "done" => (last.raised = NoExc /\ connection # "None")

C9_Witness ==
    /\ last.op = "connect"
    /\ last.stage = "init_connection_state"
    /\ last.raised = ProbeFault
    /\ connection = "live"

\* C10: no step turns a flag that is true back to false.
C10_FlagsMonotone ==
    [][\A f \in {"supports_paramstyle_pyformat", "supports_microsecond_precision",
                 "ignores_nulls_in_unique_constraints"} :
           features[f] => features'[f]]_vars

\* A re-open on a wrapper whose flag was granted by an earlier handshake.
C10_Witness ==
    /\ last.op = "connect"
    /\ last.stage = "done"
    /\ last.before.ignores_nulls_in_unique_constraints
    /\ last.version = <<>>
    /\ features.ignores_nulls_in_unique_constraints

====
